---- MODULE Spec2Model ----
(***************************************************************************)
(* Model of src/bot.py: the LeaderboardBot session store                   *)
(* (active_leaderboards), the slash commands /leaderboard, /tickets and    *)
(* /clearleaderboard, and the 15-minute update_leaderboards task.          *)
(*                                                                         *)
(* The bot runs on one asyncio event loop: code between two awaits runs    *)
(* atomically, and every await of an HTTP call (defer, fetch, send, edit)  *)
(* is a point where another command or the update task may run.  Each      *)
(* action below is one such atomic run: from an invocation or the resume   *)
(* of an await up to the next await or the return of the handler.          *)
(***************************************************************************)
EXTENDS Integers, Sequences, FiniteSets, TLC

\* ------------------------------------------------------------------ bounds
MaxTime == 2            \* the clock runs 0..MaxTime
MaxMsgs == 2            \* message ids 1..MaxMsgs are handed out by channel.send
MaxEntries == 3         \* an API answer given to the embed builders alone has 0..MaxEntries entries

\* ------------------------------------------------------- program constants
MinDays == 1            \* bot.py:319  days <= 0 is rejected
MaxDays == 30           \* bot.py:319  days > 30 is rejected
TopN == 10              \* bot.py:145  sorted(...)[:10]
TicketRate == 10        \* bot.py:194  int(deposited / 10)
TicketsDays == 7        \* bot.py:383  (end_date - start_date).days, Nov 21 -> Nov 28

\* Time is counted in days; the clock's 0 is an arbitrary instant.
\* bot.py:373: the fixed end of every /tickets event, on the model's clock.
TicketsEnd == 1
TicketsStart == TicketsEnd - TicketsDays

\* ------------------------------------------------------------ input domains
Channels == {1, 2}                  \* interaction.channel_id
Interactions == {"i1", "i2"}        \* command invocations that may be in flight together
DaysInputs == {0, 1, 31}            \* the days argument of a create command
Msgs == 1..MaxMsgs

\* What the affiliate API may answer (bot.py:81-102): a status and, for 200,
\* the 'data' array of entries with 'name' and 'deposited'.
Entry(n, d) == [name |-> n, deposited |-> d]
Responses ==
    { [status |-> 500, entries |-> << >>],
      [status |-> 200, entries |-> << Entry("alice", 0) >>],
      [status |-> 200, entries |-> << Entry("alice", 0), Entry("bob", 25) >>] }

\* message.edit succeeds or raises NotFound or another HTTPException;
\* defer and channel.send succeed or raise.
EditResults == {"ok", "not_found", "transient"}
SendResults == {"ok", "error"}

VARIABLES
    active_leaderboards,  \* bot.py:44: insertion-ordered dict channel_id -> session tuple
    now,                  \* the UTC clock
    nextMsg,              \* the id channel.send gives its next message
    cmd,                  \* per interaction: where its handler is suspended, and its locals
    sched,                \* update_leaderboards: where it is suspended, and its locals
    tlog,                 \* history: what the tick in progress did, per snapshot entry
    ended,                \* history: messages on which the 'ended' notice was attempted
    render                \* one answer of the API on its way through the fetcher's
                          \* filter and an embed builder, followed step by step

vars == << active_leaderboards, now, nextMsg, cmd, sched,
           tlog, ended, render >>

\* What the bot itself holds and the histories of its run.
botVars == << active_leaderboards, now, nextMsg, cmd, sched, tlog, ended >>

\* ------------------------------------------------------------ datetimes
\* A datetime: its wall-clock reading and whether it carries tzinfo (UTC).
Naive(w) == [wall |-> w, aware |-> FALSE]
Aware(w) == [wall |-> w, aware |-> TRUE]
NoDate == Naive(0)

\* datetime.datetime.now(): naive local time.  The host's local time is
\* taken to be UTC, so both readings of the clock show the same wall time.
LocalNow == Naive(now)
\* datetime.datetime.now(datetime.timezone.utc)
UtcNow == Aware(now)

\* bot.py:274-275: a naive end_date gets tzinfo=UTC, its wall reading kept.
NormalizeEndDate(end_date) ==
    IF ~end_date.aware THEN Aware(end_date.wall) ELSE end_date

\* ------------------------------------------------------------ the store
\* active_leaderboards as the sequence of its items in insertion order.
Session(message, end_date, days, start_time, end_time) ==
    [message |-> message, end_date |-> end_date, days |-> days,
     start_time |-> start_time, end_time |-> end_time]

Item(channel_id, session) == [channel_id |-> channel_id, session |-> session]

Keys(store) == { store[k].channel_id : k \in 1..Len(store) }

\* channel_id in active_leaderboards
Has(store, c) == c \in Keys(store)

\* active_leaderboards[c]
Get(store, c) == (CHOOSE k \in 1..Len(store) : store[k].channel_id = c)

Lookup(store, c) == store[Get(store, c)].session

\* active_leaderboards[c] = s: an existing key keeps its place, a new one goes last.
Put(store, c, s) ==
    IF Has(store, c)
    THEN [store EXCEPT ![Get(store, c)] = Item(c, s)]
    ELSE Append(store, Item(c, s))

\* del active_leaderboards[c]
Del(store, c) == SelectSeq(store, LAMBDA it : it.channel_id # c)

\* ------------------------------------------------------------ the fetcher
NoData == << >>

\* fetch_affiliate_data answering a failed request with an empty result
\* instead of None.
FetchEmptyOnError(resp) ==
    [ok |-> TRUE,
     data |-> IF resp.status = 200
              THEN SelectSeq(resp.entries, LAMBDA e : e.deposited > 0)
              ELSE NoData]

\* fetch_affiliate_data, bot.py:86-105: None unless the status is 200; on 200
\* the entries with float(deposited) > 0, in the order received.
FetchAffiliateData(resp) ==
    IF resp.status = 200
    THEN [ok |-> TRUE,
          data |-> SelectSeq(resp.entries, LAMBDA e : e.deposited > 0)]
    ELSE [ok |-> FALSE, data |-> NoData]

\* ------------------------------------------------------------ aggregation
\* user_stats is a dict, which keeps the order in which names were first
\* inserted: a sequence of rows.  A leaderboard row has no 'tickets' key in
\* the source; here it carries tickets 0 so that all rows have one shape.
Row(n, d, t) == [name |-> n, deposits |-> d, tickets |-> t]

Names(stats) == { stats[k].name : k \in 1..Len(stats) }

IndexOf(stats, n) == CHOOSE k \in 1..Len(stats) : stats[k].name = n

\* SetRow adding a repeated user's values up instead of replacing them.
SetRowAddsUp(stats, row) ==
    IF row.name \in Names(stats)
    THEN LET old == stats[IndexOf(stats, row.name)]
         IN [stats EXCEPT ![IndexOf(stats, row.name)] =
                Row(row.name, old.deposits + row.deposits, old.tickets + row.tickets)]
    ELSE Append(stats, row)

\* user_stats[name] = row: bot.py:128-130 and 191-198.
SetRow(stats, row) ==
    IF row.name \in Names(stats)
    THEN [stats EXCEPT ![IndexOf(stats, row.name)] = row]
    ELSE Append(stats, row)

RECURSIVE AggregateDeposits(_)
\* bot.py:119-130
AggregateDeposits(entries) ==
    IF entries = << >> THEN << >>
    ELSE LET init == SubSeq(entries, 1, Len(entries) - 1)
             e == entries[Len(entries)]
             stats == AggregateDeposits(init)
         IN IF e.deposited <= 0 THEN stats
            ELSE SetRow(stats, Row(e.name, e.deposited, 0))

RECURSIVE AggregateTicketsKeepsAll(_)
\* AggregateTickets without the test of line 188.
AggregateTicketsKeepsAll(entries) ==
    IF entries = << >> THEN << >>
    ELSE LET init == SubSeq(entries, 1, Len(entries) - 1)
             e == entries[Len(entries)]
         IN SetRow(AggregateTicketsKeepsAll(init),
                   Row(e.name, e.deposited, e.deposited \div TicketRate))

RECURSIVE AggregateTickets(_)
\* bot.py:182-198
AggregateTickets(entries) ==
    IF entries = << >> THEN << >>
    ELSE LET init == SubSeq(entries, 1, Len(entries) - 1)
             e == entries[Len(entries)]
             stats == AggregateTickets(init)
         IN IF e.deposited <= 0 THEN stats
            ELSE SetRow(stats, Row(e.name, e.deposited, e.deposited \div TicketRate))

\* ------------------------------------------------------------ ranking
\* key=lambda x: x[1]['deposits'] (bot.py:144), x[1]['tickets'] (bot.py:212)
KeyOf(r, metric) == IF metric = "deposits" THEN r.deposits ELSE r.tickets

RECURSIVE InsertDescBeforeTies(_, _, _)
\* InsertDesc placing a row before the rows of equal key.
InsertDescBeforeTies(sorted, r, metric) ==
    IF sorted = << >> THEN << r >>
    ELSE IF KeyOf(Head(sorted), metric) > KeyOf(r, metric)
         THEN << Head(sorted) >> \o InsertDescBeforeTies(Tail(sorted), r, metric)
         ELSE << r >> \o sorted

RECURSIVE InsertDesc(_, _, _)
\* Place row r after every row whose key is >= r's: what a stable sort with
\* reverse=True does to r relative to the rows that came before it.
InsertDesc(sorted, r, metric) ==
    IF sorted = << >> THEN << r >>
    ELSE IF KeyOf(Head(sorted), metric) >= KeyOf(r, metric)
         THEN << Head(sorted) >> \o InsertDesc(Tail(sorted), r, metric)
         ELSE << r >> \o sorted

RECURSIVE SortedDesc(_, _)
\* sorted(user_stats.items(), key=..., reverse=True): stable.
SortedDesc(stats, metric) ==
    IF stats = << >> THEN << >>
    ELSE InsertDesc(SortedDesc(SubSeq(stats, 1, Len(stats) - 1), metric),
                    stats[Len(stats)], metric)

\* [:10]
Top(rows) == SubSeq(rows, 1, IF Len(rows) < TopN THEN Len(rows) ELSE TopN)

\* bot.py:143-145
RankByDeposits(stats) == Top(SortedDesc(stats, "deposits"))
\* bot.py:211-213
RankByTickets(stats) == Top(SortedDesc(stats, "tickets"))

RECURSIVE SumOf(_, _)
\* sum(stats[...] for _, stats in user_stats.items()), bot.py:233-234
SumOf(stats, metric) ==
    IF stats = << >> THEN 0
    ELSE KeyOf(Head(stats), metric) + SumOf(Tail(stats), metric)

\* ------------------------------------------------------------ embeds
\* An embed by what the claims read of it: its title (which board), whether
\* it is the "No data available" embed, the ranked fields and the totals
\* field.  Wording, medals and timestamps are left out.  err: the function
\* raised instead of returning.
Embed(title, nodata, rows, td, tt) ==
    [err |-> FALSE, title |-> title, nodata |-> nodata, rows |-> rows,
     total_deposits |-> td, total_tickets |-> tt]

Raised == [err |-> TRUE, title |-> "none", nodata |-> FALSE, rows |-> << >>,
           total_deposits |-> 0, total_tickets |-> 0]

NoEmbed == Embed("none", FALSE, << >>, 0, 0)

\* create_leaderboard_embed, bot.py:107-175.  Line 148 subtracts the naive
\* datetime.now() from end_date: a TypeError when end_date is aware.  The
\* empty case returns at line 140, before the subtraction.
CreateLeaderboardEmbed(data, days, end_date) ==
    LET user_stats == AggregateDeposits(data)
    IN IF user_stats = << >> THEN Embed("leaderboard", TRUE, << >>, 0, 0)
       ELSE IF end_date.aware THEN Raised
       ELSE Embed("leaderboard", FALSE, RankByDeposits(user_stats), 0, 0)

\* create_tickets_embed, bot.py:177-257.  Line 216 subtracts the aware
\* datetime.now(timezone.utc) from end_date: a TypeError when end_date is naive.
CreateTicketsEmbed(data, days, end_date) ==
    LET user_stats == AggregateTickets(data)
    IN IF user_stats = << >> THEN Embed("tickets", TRUE, << >>, 0, 0)
       ELSE IF ~end_date.aware THEN Raised
       ELSE Embed("tickets", FALSE, RankByTickets(user_stats),
                  SumOf(user_stats, "deposits"), SumOf(user_stats, "tickets"))

\* ------------------------------------------------------------ one answer, rendered
\* The way of one API answer through the code, a function at a time:
\* "raw": the 'data' array as the API sent it; "fetched": after the filter
\* of fetch_affiliate_data (bot.py:89-96); "stats": user_stats built by the
\* loop of an embed builder (119-130 or 182-198); "ranked": top_users and,
\* on the tickets board, the totals (143-145, or 211-213 and 233-234).
Rendering(stage, kind, entries, data, user_stats, top_users, td, tt) ==
    [stage |-> stage, kind |-> kind, entries |-> entries, data |-> data,
     user_stats |-> user_stats, top_users |-> top_users,
     total_deposits |-> td, total_tickets |-> tt]

NoRender == Rendering("none", "none", << >>, << >>, << >>, << >>, 0, 0)

\* Answers of a few entries: names repeat, deposits may be negative or zero,
\* and 10 and 15 are worth the same number of tickets.
FewNames == {"alice", "bob"}
FewDeposits == {-5, 0, 10, 15, 20}
FewEntries ==
    UNION { [1..n -> { Entry(nm, d) : nm \in FewNames, d \in FewDeposits }]
            : n \in 0..MaxEntries }

\* Answers with one entry for each of TopN or TopN + 1 users: one user more
\* than the board shows.
ManyNames == << "u01", "u02", "u03", "u04", "u05", "u06", "u07", "u08", "u09",
               "u10", "u11" >>
ManyDeposits == {10, 25}
ManyEntries ==
    UNION { { [k \in 1..n |-> Entry(ManyNames[k], f[k])] : f \in [1..n -> ManyDeposits] }
            : n \in TopN..(TopN + 1) }

\* fetch_affiliate_data on a 200 answer: bot.py:88-97.
RenderFetch ==
    /\ render.stage = "raw"
    /\ render' = [render EXCEPT
                     !.stage = "fetched",
                     !.data = FetchAffiliateData([status |-> 200,
                                                  entries |-> render.data]).data]
    /\ UNCHANGED botVars

\* The aggregation loop of create_leaderboard_embed (bot.py:119-130) or of
\* create_tickets_embed (182-198), on the answer as sent or as fetched.
RenderAggregate(kind) ==
    /\ render.stage \in {"raw", "fetched"}
    /\ render' = [render EXCEPT
                     !.stage = "stats",
                     !.kind = kind,
                     !.user_stats = IF kind = "leaderboard"
                                    THEN AggregateDeposits(render.data)
                                    ELSE AggregateTickets(render.data)]
    /\ UNCHANGED botVars

\* The ranking of a non-empty user_stats (bot.py:143-145; 211-213) and the
\* totals of the tickets board (233-234).  An empty user_stats returns the
\* "No data" embed before it (132-140; 201-208).
RenderRank ==
    /\ render.stage = "stats"
    /\ render.user_stats # << >>
    /\ render' = [render EXCEPT
                     !.stage = "ranked",
                     !.top_users = IF render.kind = "leaderboard"
                                   THEN RankByDeposits(render.user_stats)
                                   ELSE RankByTickets(render.user_stats),
                     !.total_deposits = IF render.kind = "tickets"
                                        THEN SumOf(render.user_stats, "deposits")
                                        ELSE 0,
                     !.total_tickets = IF render.kind = "tickets"
                                       THEN SumOf(render.user_stats, "tickets")
                                       ELSE 0]
    /\ UNCHANGED botVars

\* ------------------------------------------------------------ history
\* tlog shows the tick in progress and, in the state its last step leaves,
\* the tick just finished; any later step of a command or of the
\* environment finds the task asleep and drops it.
FadeLog == tlog' = IF sched.pc = "sleep" THEN << >> ELSE tlog

\* ------------------------------------------------------------ commands
CreateCommands == {"leaderboard", "tickets"}

\* The locals of a command handler while it is suspended in an await:
\* "defer" (bot.py:328, 369), "fetch" (338, 390), "post" (345, 397), and
\* "reply": the send_message or followup.send that ends every path, with
\* the text it sends.
IdleCmd == [pc |-> "idle", name |-> "none", channel_id |-> 0, days |-> 0,
            start_time |-> 0, end_time |-> 0, end_date |-> NoDate,
            reply |-> ""]

Invoked(name, c, d) ==
    [IdleCmd EXCEPT !.name = name, !.channel_id = c, !.days = d]

\* The handler sends its last message and returns: none of its locals is
\* read again.  The channel is kept to say where the reply goes.
Replying(c, text) ==
    [IdleCmd EXCEPT !.pc = "reply", !.channel_id = c, !.reply = text]

\* BadDays without its upper bound.
BadDaysNoUpperBound(days) == days < MinDays

\* bot.py:319 and 361
BadDays(days) == days < MinDays \/ days > MaxDays

\* AlreadyActive looking at the command's own, still empty, record.
AlreadyActiveNeverSet(channel_id) == Has(<< >>, channel_id)

\* bot.py:323 and 365
AlreadyActive(channel_id) == Has(active_leaderboards, channel_id)

\* /leaderboard and /tickets up to their first await: bot.py:316-328 and
\* 358-369.  A rejection sends its reply and returns.
CreateInvoke(i, name, c, d) ==
    /\ cmd[i].pc = "idle"
    /\ cmd' = [cmd EXCEPT ![i] =
                 IF BadDays(d) THEN Replying(c, "bad_days")
                 ELSE IF AlreadyActive(c)
                      THEN Replying(c, "already_active")
                      ELSE [Invoked(name, c, d) EXCEPT !.pc = "defer"]]
    /\ FadeLog
    /\ UNCHANGED << active_leaderboards, now, nextMsg,
                    sched, ended, render >>

\* bot.py:331-333: the window and end date of a /leaderboard, from
\* datetime.now() (local, naive); .timestamp() reads it as local time.
LeaderboardWindow(c0) ==
    [c0 EXCEPT !.start_time = now,
               !.end_time = now + c0.days,
               !.end_date = Naive(LocalNow.wall + c0.days)]

\* bot.py:372-383: the fixed window of a /tickets; days is overwritten.
TicketsWindow(c0) ==
    [c0 EXCEPT !.start_time = TicketsStart,
               !.end_time = TicketsEnd,
               !.end_date = Aware(TicketsEnd),
               !.days = TicketsDays]

\* defer() returns (bot.py:328, 369): the window is computed and the fetch
\* is issued (338, 390).  defer() raising lands in the handler's except
\* (353-355, 403-405).
DeferReturn(i, res) ==
    /\ cmd[i].pc = "defer"
    /\ cmd' = [cmd EXCEPT ![i] =
                 IF res = "ok"
                 THEN [(IF cmd[i].name = "leaderboard"
                        THEN LeaderboardWindow(cmd[i])
                        ELSE TicketsWindow(cmd[i]))
                       EXCEPT !.pc = "fetch"]
                 ELSE Replying(cmd[i].channel_id, "error")]
    /\ FadeLog
    /\ UNCHANGED << active_leaderboards, now, nextMsg,
                    sched, ended, render >>

\* bot.py:343 and 395: each command builds its own kind of embed.
FirstEmbed(c0, data) ==
    IF c0.name = "leaderboard"
    THEN CreateLeaderboardEmbed(data, c0.days, c0.end_date)
    ELSE CreateTicketsEmbed(data, c0.days, c0.end_date)

\* The fetch returns (bot.py:338-345, 390-397): None ends the command with
\* "Unable to fetch"; otherwise the embed is built and channel.send issued.
FetchReturn(i, resp) ==
    /\ cmd[i].pc = "fetch"
    /\ LET got == FetchAffiliateData(resp)
           embed == FirstEmbed(cmd[i], got.data)
       IN cmd' = [cmd EXCEPT ![i] =
                    IF ~got.ok THEN Replying(cmd[i].channel_id, "fetch_failed")
                    ELSE IF embed.err THEN Replying(cmd[i].channel_id, "error")
                    ELSE [cmd[i] EXCEPT !.pc = "post"]]
    /\ FadeLog
    /\ UNCHANGED << active_leaderboards, now, nextMsg,
                    sched, ended, render >>

\* bot.py:347 and 398
StoreSession(store, c0, message) ==
    Put(store, c0.channel_id,
        Session(message, c0.end_date, c0.days, c0.start_time, c0.end_time))

\* PostReturn with the session stored before send's outcome is known.
PostReturnStoresFirst(i, res) ==
    /\ cmd[i].pc = "post"
    /\ nextMsg <= MaxMsgs
    /\ active_leaderboards' = StoreSession(active_leaderboards, cmd[i], nextMsg)
    /\ nextMsg' = nextMsg + 1
    /\ cmd' = [cmd EXCEPT ![i] =
                 Replying(cmd[i].channel_id,
                          IF res = "ok" THEN "started" ELSE "error")]
    /\ FadeLog
    /\ UNCHANGED << now, sched, ended, render >>

\* channel.send returns (bot.py:345-350, 397-400): the session is stored
\* under the channel id, with no second look at the dict, and the
\* confirmation is sent; or send raised and the handler's except replies.
PostReturn(i, res) ==
    /\ cmd[i].pc = "post"
    /\ IF res = "ok"
       THEN /\ nextMsg <= MaxMsgs
            /\ active_leaderboards' = StoreSession(active_leaderboards, cmd[i], nextMsg)
            /\ nextMsg' = nextMsg + 1
            /\ cmd' = [cmd EXCEPT ![i] = Replying(cmd[i].channel_id, "started")]
       ELSE /\ cmd' = [cmd EXCEPT ![i] = Replying(cmd[i].channel_id, "error")]
            /\ UNCHANGED << active_leaderboards, nextMsg >>
    /\ FadeLog
    /\ UNCHANGED << now, sched, ended, render >>

\* /clearleaderboard answering "cleared" without the del of line 418.
ClearLeaderboardRepliesOnly(i, c) ==
    /\ cmd[i].pc = "idle"
    /\ cmd' = [cmd EXCEPT ![i] =
                 Replying(c, IF Has(active_leaderboards, c)
                             THEN "cleared" ELSE "none_active")]
    /\ FadeLog
    /\ UNCHANGED << active_leaderboards, now, nextMsg, sched, ended, render >>

\* /clearleaderboard, bot.py:415-421: no await before the reply.
ClearLeaderboard(i, c) ==
    /\ cmd[i].pc = "idle"
    /\ IF Has(active_leaderboards, c)
       THEN /\ active_leaderboards' = Del(active_leaderboards, c)
            /\ cmd' = [cmd EXCEPT ![i] =
                         Replying(c, "cleared")]
       ELSE /\ active_leaderboards' = active_leaderboards
            /\ cmd' = [cmd EXCEPT ![i] =
                         Replying(c, "none_active")]
    /\ FadeLog
    /\ UNCHANGED << now, nextMsg, sched, ended, render >>

\* The last send of a handler returns or raises, and the handler is over.
ReplyReturn(i) ==
    /\ cmd[i].pc = "reply"
    /\ cmd' = [cmd EXCEPT ![i] = IdleCmd]
    /\ FadeLog
    /\ UNCHANGED << active_leaderboards, now, nextMsg,
                    sched, ended, render >>

\* ------------------------------------------------------------ the update task
\* One thing the tick did for an entry of its snapshot: what, for which
\* entry (its place, channel and message), and the result, data or embed
\* that came with it.
TEv(ev, snapshot, i, res, data, embed) ==
    [ev |-> ev, i |-> i, chan |-> snapshot[i].channel_id,
     msg |-> snapshot[i].session.message,
     res |-> res, data |-> data, embed |-> embed]

Did(ev, snapshot, i) == TEv(ev, snapshot, i, "", NoData, NoEmbed)

\* What the task sees of an edit's result: it returned, or it raised
\* (bot.py:283-284 and 294-295 catch every exception alike).
Outcome(res) == IF res = "ok" THEN "ok" ELSE "raised"

\* The locals of update_leaderboards while it sleeps or is suspended.
Sleeping == [pc |-> "sleep", current_time |-> Aware(0), snapshot |-> << >>,
             idx |-> 0, channels_to_remove |-> << >>]

\* The comparison of line 278 never true.
ExpiredNever(current_time, end_date) == FALSE

\* bot.py:278, on the normalised end date
Expired(current_time, end_date) ==
    current_time.wall > NormalizeEndDate(end_date).wall

\* bot.py:265-267: get_channel reads the client's cache, which holds the
\* channels in `cached` while the task runs from one await to the next.
Resolves(channel_id, cached) == channel_id \in cached

RECURSIVE RunLoopStopsAtMissing(_, _, _, _, _, _)
\* The loop with a return in place of the continue of line 270.
RunLoopStopsAtMissing(snapshot, current_time, cached, i, rem, log) ==
    IF i > Len(snapshot)
    THEN [pc |-> "sleep", idx |-> i, rem |-> rem, log |-> log]
    ELSE LET channel_id == snapshot[i].channel_id
             end_date == snapshot[i].session.end_date
         IN IF ~Resolves(channel_id, cached)
            THEN [pc |-> "sleep", idx |-> i, rem |-> Append(rem, channel_id),
                  log |-> Append(log, Did("no_channel", snapshot, i))]
            ELSE IF Expired(current_time, end_date)
            THEN [pc |-> "end_edit", idx |-> i,
                  rem |-> Append(rem, channel_id),
                  log |-> Append(log, Did("expired", snapshot, i))]
            ELSE [pc |-> "fetch", idx |-> i, rem |-> rem,
                  log |-> Append(log, Did("fetch", snapshot, i))]

RECURSIVE RunLoopLive(_, _, _, _, _, _)
\* The loop iterating the dict itself instead of the copy of line 264.
RunLoopLive(snapshot, current_time, cached, i, rem, log) ==
    IF i > Len(active_leaderboards)
    THEN [pc |-> "sleep", idx |-> i, rem |-> rem, log |-> log]
    ELSE LET channel_id == active_leaderboards[i].channel_id
             end_date == active_leaderboards[i].session.end_date
         IN IF ~Resolves(channel_id, cached)
            THEN RunLoopLive(snapshot, current_time, cached, i + 1,
                             Append(rem, channel_id),
                             Append(log, Did("no_channel", active_leaderboards, i)))
            ELSE IF Expired(current_time, end_date)
            THEN [pc |-> "end_edit", idx |-> i,
                  rem |-> Append(rem, channel_id),
                  log |-> Append(log, Did("expired", active_leaderboards, i))]
            ELSE [pc |-> "fetch", idx |-> i, rem |-> rem,
                  log |-> Append(log, Did("fetch", active_leaderboards, i))]

RECURSIVE RunLoop(_, _, _, _, _, _)
\* The for loop of bot.py:264-298 from entry i up to its next await: an entry
\* whose channel does not resolve is marked and skipped (267-270); an expired
\* one is marked and the loop suspends in the edit of line 281; any other
\* suspends in the fetch of line 288.  Past the last entry the loop is over.
RunLoop(snapshot, current_time, cached, i, rem, log) ==
    IF i > Len(snapshot)
    THEN [pc |-> "sleep", idx |-> i, rem |-> rem, log |-> log]
    ELSE LET channel_id == snapshot[i].channel_id
             end_date == snapshot[i].session.end_date
         IN IF ~Resolves(channel_id, cached)
            THEN RunLoop(snapshot, current_time, cached, i + 1,
                         Append(rem, channel_id),
                         Append(log, Did("no_channel", snapshot, i)))
            ELSE IF Expired(current_time, end_date)
            THEN [pc |-> "end_edit", idx |-> i,
                  rem |-> Append(rem, channel_id),
                  log |-> Append(log, Did("expired", snapshot, i))]
            ELSE [pc |-> "fetch", idx |-> i, rem |-> rem,
                  log |-> Append(log, Did("fetch", snapshot, i))]

\* The removal loop leaving after its first channel.
RemoveEndedFirstOnly(store, rem) ==
    IF rem = << >> THEN store
    ELSE IF Has(store, Head(rem)) THEN Del(store, Head(rem)) ELSE store

\* The removal loop without the membership test of line 302: the del of
\* an absent key raises KeyError out of the loop, the rest is not removed.
RECURSIVE RemoveEndedNoTest(_, _)
RemoveEndedNoTest(store, rem) ==
    IF rem = << >> THEN store
    ELSE IF Has(store, Head(rem))
         THEN RemoveEndedNoTest(Del(store, Head(rem)), Tail(rem))
         ELSE store

RECURSIVE RemoveEnded(_, _)
\* bot.py:301-304: each marked channel id still in the dict is deleted.
RemoveEnded(store, rem) ==
    IF rem = << >> THEN store
    ELSE RemoveEnded(IF Has(store, Head(rem)) THEN Del(store, Head(rem)) ELSE store,
                     Tail(rem))

\* The task's state after the loop ran on to r: suspended again, or, the
\* loop over, the marked channels removed from the live dict and the task
\* asleep until its next run.
Continue(s0, r) ==
    /\ sched' = IF r.pc = "sleep" THEN Sleeping
                ELSE [s0 EXCEPT !.pc = r.pc, !.idx = r.idx,
                                !.channels_to_remove = r.rem]
    /\ active_leaderboards' =
          IF r.pc = "sleep" THEN RemoveEnded(active_leaderboards, r.rem)
          ELSE active_leaderboards
    /\ tlog' = r.log
    /\ ended' = IF r.pc = "end_edit"
                THEN ended \cup {s0.snapshot[r.idx].session.message}
                ELSE ended

\* A run of the task beginning whether or not the previous one is over.
TickStartAnyTime(cached) ==
    /\ LET s0 == [Sleeping EXCEPT !.current_time = UtcNow,
                                  !.snapshot = active_leaderboards]
       IN Continue(s0, RunLoop(s0.snapshot, s0.current_time, cached, 1, << >>, << >>))
    /\ UNCHANGED << now, nextMsg, cmd, render >>

\* A run of the task begins (bot.py:259-264): the time is read, the dict's
\* items are copied, and the loop runs to its first await.
TickStart(cached) ==
    /\ sched.pc = "sleep"
    /\ LET s0 == [Sleeping EXCEPT !.current_time = UtcNow,
                                  !.snapshot = active_leaderboards]
       IN Continue(s0, RunLoop(s0.snapshot, s0.current_time, cached, 1, << >>, << >>))
    /\ UNCHANGED << now, nextMsg, cmd, render >>

\* The edit of line 281 returns or raises (283-284: ignored either way).
EndEditReturn(res, cached) ==
    /\ sched.pc = "end_edit"
    /\ Continue(sched,
                RunLoop(sched.snapshot, sched.current_time, cached, sched.idx + 1,
                        sched.channels_to_remove,
                        Append(tlog, TEv("end_edit_done", sched.snapshot, sched.idx,
                                         Outcome(res),
                                         NoData, NoEmbed))))
    /\ UNCHANGED << now, nextMsg, cmd, render >>

\* bot.py:290: the update task builds the deposits embed for every session,
\* from the end date as normalised at 274-275.
RefreshEmbed(session, data) ==
    CreateLeaderboardEmbed(data, session.days, NormalizeEndDate(session.end_date))

\* The fetch of line 288 returns: on None nothing more is done for the
\* entry (289); else the embed is built (290), and a raise there is caught
\* at 297; else the loop suspends in the edit of line 292.
TickFetchReturn(resp, cached) ==
    /\ sched.pc = "fetch"
    /\ LET got == FetchAffiliateData(resp)
           i == sched.idx
           embed == RefreshEmbed(sched.snapshot[i].session, got.data)
           fetched == Append(tlog, TEv("fetch_done", sched.snapshot, i,
                                       IF got.ok THEN "ok" ELSE "none",
                                       got.data, NoEmbed))
       IN IF ~got.ok
          THEN Continue(sched,
                        RunLoop(sched.snapshot, sched.current_time, cached, i + 1,
                                sched.channels_to_remove, fetched))
          ELSE IF embed.err
          THEN Continue(sched,
                        RunLoop(sched.snapshot, sched.current_time, cached, i + 1,
                                sched.channels_to_remove,
                                Append(fetched, Did("embed_error", sched.snapshot, i))))
          ELSE /\ sched' = [sched EXCEPT !.pc = "edit"]
               /\ tlog' = Append(fetched, TEv("edit", sched.snapshot, i, "", NoData, embed))
               /\ UNCHANGED << active_leaderboards, ended >>
    /\ UNCHANGED << now, nextMsg, cmd, render >>

\* The edit of line 292 returns or raises (294-295: logged only).
EditReturn(res, cached) ==
    /\ sched.pc = "edit"
    /\ Continue(sched,
                RunLoop(sched.snapshot, sched.current_time, cached, sched.idx + 1,
                        sched.channels_to_remove,
                        Append(tlog, TEv("edit_done", sched.snapshot, sched.idx,
                                         Outcome(res),
                                         NoData, NoEmbed))))
    /\ UNCHANGED << now, nextMsg, cmd, render >>

\* ------------------------------------------------------------ environment
\* Time passes.
ClockAdvance ==
    /\ now < MaxTime
    /\ now' = now + 1
    /\ FadeLog
    /\ UNCHANGED << active_leaderboards, nextMsg, cmd,
                    sched, ended, render >>

\* The channels get_channel may still be asked for by the run of the task
\* in progress, or by the run that would start now: only these matter in
\* what the cache holds.
Pending ==
    IF sched.pc = "sleep" THEN Keys(active_leaderboards)
    ELSE { sched.snapshot[k].channel_id : k \in (sched.idx + 1)..Len(sched.snapshot) }

\* ------------------------------------------------------------ specification
\* bot.py:37-45: the bot as constructed.
BotInit ==
    /\ active_leaderboards = << >>
    /\ now = 0
    /\ nextMsg = 1
    /\ cmd = [i \in Interactions |-> IdleCmd]
    /\ sched = Sleeping
    /\ tlog = << >>
    /\ ended = {}

Init ==
    /\ BotInit
    /\ render = NoRender

\* The steps of the commands of interactions I in channels C, of the
\* update task, whose get_channel finds some of C, and of the clock.
Steps(I, C) ==
    \/ \E i \in I, name \in CreateCommands, c \in C, d \in DaysInputs :
          CreateInvoke(i, name, c, d)
    \/ \E i \in I, res \in SendResults : DeferReturn(i, res)
    \/ \E i \in I, resp \in Responses : FetchReturn(i, resp)
    \/ \E i \in I, res \in SendResults : PostReturn(i, res)
    \/ \E i \in I, c \in C : ClearLeaderboard(i, c)
    \/ \E i \in I : ReplyReturn(i)
    \/ \E cached \in SUBSET Pending : TickStart(cached)
    \/ \E res \in EditResults, cached \in SUBSET Pending : EndEditReturn(res, cached)
    \/ \E resp \in Responses, cached \in SUBSET Pending : TickFetchReturn(resp, cached)
    \/ \E res \in EditResults, cached \in SUBSET Pending : EditReturn(res, cached)
    \/ ClockAdvance

\* Commands arrive one after the other, in either channel, while the update
\* task runs.
Next == Steps({"i1"}, Channels)

Spec == Init /\ [][Next]_vars

\* Two commands may be in flight together, in one channel, while the update
\* task runs.
NextRace == Steps(Interactions, {1})

SpecRace == Init /\ [][NextRace]_vars

\* One answer of the API, any of FewEntries or ManyEntries, taken through
\* the fetcher's filter and either embed builder.
InitRender ==
    /\ BotInit
    /\ \E entries \in FewEntries \cup ManyEntries :
          render = Rendering("raw", "none", entries, entries, << >>, << >>, 0, 0)

NextRender ==
    \/ RenderFetch
    \/ \E kind \in CreateCommands : RenderAggregate(kind)
    \/ RenderRank

SpecRender == InitRender /\ [][NextRender]_vars

\* ------------------------------------------------------------ claims
ValidDays(d) == d >= 1 /\ d <= 30

\* The step takes the handler of interaction i on from where it stood at pc.
Leaves(i, pc) == cmd[i].pc = pc /\ cmd'[i].pc # pc

\* C1: a create command invoked for a channel that already has a session
\* is rejected as already active: its handler goes straight to that reply
\* (no defer, no fetch, no post), no message is posted, and the store, the
\* existing session with it, is left as it was.
C1_DuplicateCreateRejected ==
    [][\A i \in Interactions :
          Leaves(i, "idle")
          => \A name \in CreateCommands, c \in Keys(active_leaderboards),
                d \in DaysInputs :
                (ValidDays(d) /\ CreateInvoke(i, name, c, d))
                => /\ cmd'[i].pc = "reply"
                   /\ cmd'[i].reply = "already_active"
                   /\ active_leaderboards' = active_leaderboards
                   /\ nextMsg' = nextMsg]_vars

\* C1's case: a create command is being answered "already active" in a
\* channel whose session is in the store.
C1_Witness ==
    \E i \in Interactions :
        /\ cmd[i].pc = "reply"
        /\ cmd[i].reply = "already_active"
        /\ cmd[i].channel_id \in Keys(active_leaderboards)

\* C2: the existence check and the insert of a create command act as one
\* atomic check-and-insert: a session that is in the store is never
\* replaced by another create command's session, so of two create
\* commands for one channel at most one posts and stores.
C2_AtomicCheckAndInsert ==
    [][\A c \in Channels :
          (c \in Keys(active_leaderboards) /\ c \in Keys(active_leaderboards'))
          => Lookup(active_leaderboards', c) = Lookup(active_leaderboards, c)]_vars

\* C9: a create command whose fetch fails, or that fails anywhere before
\* its artifact is posted, leaves the store and the message counter as they
\* were; a session enters the store only in the step in which a command's
\* channel.send succeeded, with that new message; and a create command for
\* a channel without a session is not rejected as duplicate.
C9_FailedCreateStoresNothing ==
    [][/\ \A i \in Interactions :
             Leaves(i, "fetch")
             => \A resp \in Responses :
                   (resp.status # 200 /\ FetchReturn(i, resp))
                   => /\ cmd'[i].pc = "reply"
                      /\ cmd'[i].reply = "fetch_failed"
                      /\ active_leaderboards' = active_leaderboards
                      /\ nextMsg' = nextMsg
       /\ \A i \in Interactions :
             (/\ cmd[i].pc \in {"defer", "fetch", "post"}
              /\ cmd'[i].pc = "reply"
              /\ cmd'[i].reply \in {"fetch_failed", "error"})
             => /\ active_leaderboards' = active_leaderboards
                /\ nextMsg' = nextMsg
       /\ \A c \in Channels :
             (/\ c \in Keys(active_leaderboards')
              /\ \/ c \notin Keys(active_leaderboards)
                 \/ Lookup(active_leaderboards', c) # Lookup(active_leaderboards, c))
             => \E i \in Interactions :
                   /\ cmd[i].pc = "post"
                   /\ cmd[i].channel_id = c
                   /\ cmd'[i].reply = "started"
                   /\ Lookup(active_leaderboards', c).message = nextMsg
                   /\ nextMsg' = nextMsg + 1
       /\ \A i \in Interactions :
             Leaves(i, "idle")
             => \A name \in CreateCommands,
                   c \in Channels \ Keys(active_leaderboards), d \in DaysInputs :
                   (ValidDays(d) /\ CreateInvoke(i, name, c, d))
                   => cmd'[i].pc = "defer"]_vars

\* C9's case: a create command is reporting its failed fetch, and its
\* channel has no session.
C9_Witness ==
    \E i \in Interactions :
        /\ cmd[i].pc = "reply"
        /\ cmd[i].reply = "fetch_failed"
        /\ cmd[i].channel_id \notin Keys(active_leaderboards)

\* C10: a create command with days outside 1..30 is rejected on its days
\* alone, whether or not its channel has a session: its handler goes
\* straight to that reply (no defer, no fetch, no post), nothing is posted
\* and the store is left as it was.
C10_BadDaysRejectedFirst ==
    [][\A i \in Interactions :
          Leaves(i, "idle")
          => \A name \in CreateCommands, c \in Channels, d \in DaysInputs :
                (~ValidDays(d) /\ CreateInvoke(i, name, c, d))
                => /\ cmd'[i].pc = "reply"
                   /\ cmd'[i].reply = "bad_days"
                   /\ active_leaderboards' = active_leaderboards
                   /\ nextMsg' = nextMsg]_vars

\* C10's case: a create command is being answered "bad days" in a channel
\* that has a session.
C10_Witness ==
    \E i \in Interactions :
        /\ cmd[i].pc = "reply"
        /\ cmd[i].reply = "bad_days"
        /\ cmd[i].channel_id \in Keys(active_leaderboards)

\* ------------------------------------------------------------ claims on the update task
\* The snapshot and the time of the tick a step belongs to: of the tick in
\* progress, or of the tick a step of the sleeping task starts.
TickSnapshot == IF sched.pc = "sleep" THEN active_leaderboards ELSE sched.snapshot
TickTime == IF sched.pc = "sleep" THEN now ELSE sched.current_time.wall

\* The step is the last of a tick: the task is asleep after it.
TickFinish ==
    /\ sched'.pc = "sleep"
    /\ \/ sched.pc # "sleep"
       \/ /\ cmd' = cmd /\ now' = now
          /\ \E cached \in SUBSET Channels : TickStart(cached)

\* The step is one of the update task.
TickStep ==
    \/ sched' # sched
    \/ /\ cmd' = cmd /\ now' = now
       /\ \E cached \in SUBSET Channels : TickStart(cached)

\* Where log says ev of entry i.
Events(log, ev, i) == { k \in 1..Len(log) : log[k].ev = ev /\ log[k].i = i }

\* The messages the tick marked for removal, by its log.
Marked(log) ==
    { log[k].msg : k \in { n \in 1..Len(log) : log[n].ev \in {"expired", "no_channel"} } }

\* C3: a session of the snapshot whose end date (read as UTC, as line 275
\* reads it) is before the tick's time and whose channel resolves gets the
\* 'ended' notice attempted exactly once in the tick and its channel is
\* out of the store when the tick finishes, whatever the edit's outcome;
\* and the notice is never attempted on a message it was attempted on
\* before.
C3_ExpiredEndsOnce ==
    [][/\ (/\ sched'.pc = "end_edit"
           /\ sched.pc # "end_edit" \/ sched.idx # sched'.idx)
          => sched'.snapshot[sched'.idx].session.message \notin ended
       /\ TickFinish
          => \A i \in 1..Len(TickSnapshot) :
                (/\ TickTime > TickSnapshot[i].session.end_date.wall
                 /\ Events(tlog', "no_channel", i) = {})
                => /\ Cardinality(Events(tlog', "expired", i)) = 1
                   /\ Cardinality(Events(tlog', "end_edit_done", i)) = 1
                   /\ TickSnapshot[i].channel_id \notin Keys(active_leaderboards')]_vars

\* C3's case: a tick has just finished in which the 'ended' notice of an
\* expired session was attempted and failed, and the session is gone.
C3_Witness ==
    /\ sched.pc = "sleep"
    /\ \E k \in 1..Len(tlog) :
          /\ tlog[k].ev = "end_edit_done"
          /\ tlog[k].res # "ok"
          /\ tlog[k].msg \in ended
          /\ tlog[k].chan \notin Keys(active_leaderboards)

\* C4: whenever a tick's fetch for a session returned at least one
\* qualifying entry, the tick next issues an update of that session's
\* message with the ranking computed from that data.
C4_RefreshRendersRanking ==
    \A k \in 1..Len(tlog) :
        (tlog[k].ev = "fetch_done" /\ tlog[k].res = "ok" /\ tlog[k].data # << >>)
        => /\ k < Len(tlog)
           /\ tlog[k + 1].ev = "edit"
           /\ tlog[k + 1].i = tlog[k].i
           /\ ~tlog[k + 1].embed.nodata
           /\ tlog[k + 1].embed.rows = RankByDeposits(AggregateDeposits(tlog[k].data))

\* C5: a failed update of a session's message is followed by a retry of
\* the update (after a transient failure) or by the recreation of the
\* artifact: a new message posted and put in place of the session's.
C5_RetryThenRecreate ==
    [][\A res \in EditResults, cached \in SUBSET Channels :
          (EditReturn(res, cached) /\ res # "ok")
          => LET c == sched.snapshot[sched.idx].channel_id
             IN \/ /\ res = "transient"
                   /\ sched'.pc = "edit"
                   /\ sched'.idx = sched.idx
                \/ /\ nextMsg' = nextMsg + 1
                   /\ c \in Keys(active_leaderboards')
                   /\ Lookup(active_leaderboards', c).message = nextMsg]_vars

\* C6: the update task takes a session out of the store only if it found
\* that session expired or its channel unresolvable in this tick; every
\* other session, whatever failed for it, is still in the store, unchanged,
\* when the tick finishes.
C6_RemovedOnlyIfExpiredOrGone ==
    [][TickStep
       => \A c \in Keys(active_leaderboards) :
             \/ /\ c \in Keys(active_leaderboards')
                /\ Lookup(active_leaderboards', c) = Lookup(active_leaderboards, c)
             \/ /\ TickFinish
                /\ Lookup(active_leaderboards, c).message \in Marked(tlog')]_vars

\* C7: when the fetch for a session returns None, the tick issues no
\* update of that session's message and builds no embed for it, leaves its
\* stored session as it is, and goes on to the entries after it.
C7_FetchFailureSkips ==
    [][\A resp \in Responses, cached \in SUBSET Channels :
          (sched.pc = "fetch" /\ tlog' # tlog /\ resp.status # 200
             /\ TickFetchReturn(resp, cached))
          => LET i == sched.idx
                 c == sched.snapshot[i].channel_id
             IN /\ Events(tlog', "edit", i) = {}
                /\ Events(tlog', "embed_error", i) = {}
                /\ c \in Keys(active_leaderboards)
                   => /\ c \in Keys(active_leaderboards')
                      /\ Lookup(active_leaderboards', c) = Lookup(active_leaderboards, c)
                /\ sched'.pc = "sleep" \/ sched'.idx > i
                /\ \A j \in (i + 1)..Len(sched.snapshot) :
                      (sched'.pc = "sleep" \/ j <= sched'.idx)
                      => \E k \in 1..Len(tlog') : tlog'[k].i = j]_vars

\* C7's case: the fetch for the first entry failed, its session is still
\* stored, and the tick has gone on to the second entry.
C7_Witness ==
    /\ \E k \in 1..Len(tlog) :
          /\ tlog[k].ev = "fetch_done" /\ tlog[k].res = "none" /\ tlog[k].i = 1
          /\ tlog[k].chan \in Keys(active_leaderboards)
          /\ Lookup(active_leaderboards, tlog[k].chan).message = tlog[k].msg
    /\ \E k \in 1..Len(tlog) : tlog[k].i = 2 /\ tlog[k].ev = "fetch"

PositiveNames(entries) ==
    { entries[k].name : k \in { n \in 1..Len(entries) : entries[n].deposited > 0 } }

\* Where the answer has a positive deposit for user n.
PositiveAt(entries, n) ==
    { k \in 1..Len(entries) : entries[k].name = n /\ entries[k].deposited > 0 }

Least(S) == CHOOSE k \in S : \A j \in S : k <= j
Greatest(S) == CHOOSE k \in S : \A j \in S : k >= j

\* The deposit of the last entry that gives user n a positive deposit.
LastPositive(entries, n) == entries[Greatest(PositiveAt(entries, n))].deposited

RECURSIVE SumOver(_, _)
\* The sum of f over the finite set S.
SumOver(S, f) ==
    IF S = {} THEN 0
    ELSE LET x == CHOOSE y \in S : TRUE
         IN f[x] + SumOver(S \ {x}, f)

\* The metric a board ranks by.
MetricOf(kind) == IF kind = "leaderboard" THEN "deposits" ELSE "tickets"

\* The aggregation of `kind` applied to entries.
AggregateOf(kind, entries) ==
    IF kind = "leaderboard" THEN AggregateDeposits(entries) ELSE AggregateTickets(entries)

\* C11: an entry whose deposit is not positive contributes nothing.  The
\* users of user_stats are exactly those with a positive deposit in the
\* answer, every row has a positive deposit, user_stats is what the answer
\* without its non-positive entries aggregates to, only such users are
\* ranked, and the totals of the tickets board are the sums over those
\* users of the deposit, and of the tickets, of their last positive entry.
C11_NonPositiveContributesNothing ==
    render.stage \in {"stats", "ranked"}
    => LET entries == render.entries
           positive == SelectSeq(entries, LAMBDA e : e.deposited > 0)
           users == PositiveNames(entries)
       IN /\ Names(render.user_stats) = users
          /\ \A k \in 1..Len(render.user_stats) : render.user_stats[k].deposits > 0
          /\ render.user_stats = AggregateOf(render.kind, positive)
          /\ render.stage = "ranked"
             => /\ Names(render.top_users) \subseteq users
                /\ render.kind = "tickets"
                   => /\ render.total_deposits =
                           SumOver(users, [n \in users |-> LastPositive(entries, n)])
                      /\ render.total_tickets =
                           SumOver(users, [n \in users |->
                                              LastPositive(entries, n) \div 10])

\* C11's case: the answer [{alice, 0}, {bob, 20}], given unfiltered to the
\* tickets builder, has been aggregated to bob alone and totalled to 20.
C11_Witness ==
    /\ render.stage = "ranked"
    /\ render.kind = "tickets"
    /\ render.entries = << Entry("alice", 0), Entry("bob", 20) >>
    /\ render.data = render.entries
    /\ Names(render.user_stats) = {"bob"}
    /\ render.total_deposits = 20

\* C12: top_users has at most 10 rows, as many as user_stats has up to 10,
\* each a row of user_stats and no user twice; it is in descending order of
\* the board's metric; no user left out has a higher metric than a user
\* shown; and of two users of equal metric the one inserted first into
\* user_stats comes first, and is the one shown if only one is.
C12_RankTop10DescendingStable ==
    render.stage = "ranked"
    => LET stats == render.user_stats
           top == render.top_users
           metric == MetricOf(render.kind)
           shown == Names(top)
       IN /\ Len(top) <= 10
          /\ Len(top) = (IF Len(stats) < 10 THEN Len(stats) ELSE 10)
          /\ Cardinality(shown) = Len(top)
          /\ \A k \in 1..Len(top) : \E j \in 1..Len(stats) : stats[j] = top[k]
          /\ \A k \in 1..(Len(top) - 1) :
                KeyOf(top[k], metric) >= KeyOf(top[k + 1], metric)
          /\ \A j \in 1..Len(stats), k \in 1..Len(top) :
                stats[j].name \notin shown
                => KeyOf(stats[j], metric) <= KeyOf(top[k], metric)
          /\ \A a, b \in 1..Len(top) :
                (a < b /\ KeyOf(top[a], metric) = KeyOf(top[b], metric))
                => IndexOf(stats, top[a].name) < IndexOf(stats, top[b].name)
          /\ \A j \in 1..Len(stats), k \in 1..Len(top) :
                (stats[j].name \notin shown
                   /\ KeyOf(stats[j], metric) = KeyOf(top[k], metric))
                => IndexOf(stats, top[k].name) < j

\* C12's case: eleven users have been ranked, ten are shown, two of the
\* shown tie, and the one left out ties with one shown.
C12_Witness ==
    /\ render.stage = "ranked"
    /\ Len(render.user_stats) = 11
    /\ Len(render.top_users) = 10
    /\ LET metric == MetricOf(render.kind)
           top == render.top_users
           stats == render.user_stats
       IN /\ KeyOf(top[9], metric) = KeyOf(top[10], metric)
          /\ KeyOf(top[1], metric) > KeyOf(top[10], metric)
          /\ \E j \in 1..Len(stats) :
                /\ stats[j].name \notin Names(top)
                /\ KeyOf(stats[j], metric) = KeyOf(top[10], metric)

\* C13: both boards aggregate last-write-wins.  user_stats has one row for
\* each user with a positive deposit, in the order of the users' first
\* positive entries; the row's deposit is that of the user's last positive
\* entry, not a sum, and on the tickets board its tickets are that deposit
\* divided by 10, rounded down.  The mapping is thereby a function of the
\* answer alone.
C13_LastWriteWins ==
    render.stage \in {"stats", "ranked"}
    => LET entries == render.entries
           stats == render.user_stats
       IN /\ Names(stats) = PositiveNames(entries)
          /\ Cardinality(Names(stats)) = Len(stats)
          /\ \A k \in 1..Len(stats) :
                /\ stats[k].deposits = LastPositive(entries, stats[k].name)
                /\ stats[k].tickets =
                      (IF render.kind = "tickets"
                       THEN LastPositive(entries, stats[k].name) \div 10
                       ELSE 0)
          /\ \A a, b \in 1..Len(stats) :
                a < b => Least(PositiveAt(entries, stats[a].name))
                           < Least(PositiveAt(entries, stats[b].name))

\* C13's case: a user with two different positive deposits has been
\* aggregated, and so has another user whose first entry came later.
C13_Witness ==
    /\ render.stage = "stats"
    /\ render.kind = "tickets"
    /\ render.entries = << Entry("bob", 10), Entry("alice", 15), Entry("bob", 20) >>
    /\ render.user_stats = << Row("bob", 20, 2), Row("alice", 15, 1) >>

\* ------------------------------------------------------------ claims on removal
\* The channels the tick marked for removal, by its log.
MarkedChannels(log) ==
    { log[k].chan : k \in { n \in 1..Len(log) : log[n].ev \in {"expired", "no_channel"} } }

\* C14: /clearleaderboard in a channel that has a session takes exactly
\* that session out of the store, whatever its end date, and goes straight
\* to its reply: it awaits no fetch and no edit, posts nothing, and leaves
\* the update task and the record of 'ended' notices as they are; a create
\* command in a channel without session is then not rejected as duplicate.
\* In a channel without session it answers that none is active and the
\* store stays as it is.
C14_ManualClear ==
    [][\A i \in Interactions :
          Leaves(i, "idle")
          => /\ \A c \in Channels :
                   ClearLeaderboard(i, c)
                   => /\ cmd'[i].pc = "reply"
                      /\ c \notin Keys(active_leaderboards')
                      /\ \A c2 \in Channels \ {c} :
                            /\ c2 \in Keys(active_leaderboards')
                                  <=> c2 \in Keys(active_leaderboards)
                            /\ c2 \in Keys(active_leaderboards)
                               => Lookup(active_leaderboards', c2)
                                     = Lookup(active_leaderboards, c2)
                      /\ cmd'[i].reply = (IF c \in Keys(active_leaderboards)
                                          THEN "cleared" ELSE "none_active")
                      /\ c \notin Keys(active_leaderboards)
                         => active_leaderboards' = active_leaderboards
                      /\ sched' = sched /\ ended' = ended /\ nextMsg' = nextMsg
             /\ \A name \in CreateCommands,
                   c \in Channels \ Keys(active_leaderboards), d \in DaysInputs :
                   (ValidDays(d) /\ CreateInvoke(i, name, c, d))
                   => cmd'[i].reply # "already_active"]_vars

\* C14's case: while a tick that found a session expired waits for its
\* 'ended' edit, /clearleaderboard has taken that session out of the store.
C14_Witness ==
    /\ sched.pc = "end_edit"
    /\ \E i \in Interactions :
          /\ cmd[i].pc = "reply"
          /\ cmd[i].reply = "cleared"
          /\ cmd[i].channel_id = sched.snapshot[sched.idx].channel_id
          /\ cmd[i].channel_id \notin Keys(active_leaderboards)

\* C15: removal of an absent key is a no-op.  del on a store without the
\* channel gives the store back; and the last step of a tick, whether or
\* not some marked channel has been cleared meanwhile, leaves the task
\* asleep with no marked channel in the store.
C15_RemovalIdempotent ==
    [][/\ \A c \in Channels \ Keys(active_leaderboards) :
             /\ Del(active_leaderboards, c) = active_leaderboards
             /\ RemoveEnded(active_leaderboards, << c >>) = active_leaderboards
       /\ (sched.pc # "sleep" /\ sched'.pc = "sleep")
          => /\ MarkedChannels(tlog') \cap Keys(active_leaderboards') = {}
             /\ sched' = Sleeping]_vars

\* C15's case: a tick that marked two channels has just finished; one of
\* them had been cleared by /clearleaderboard while the tick was waiting,
\* and neither is in the store.
C15_Witness ==
    /\ sched.pc = "sleep"
    /\ Cardinality(MarkedChannels(tlog)) = 2
    /\ MarkedChannels(tlog) \cap Keys(active_leaderboards) = {}
    /\ \E i \in Interactions :
          /\ cmd[i].pc = "reply"
          /\ cmd[i].reply = "cleared"
          /\ cmd[i].channel_id = tlog[1].chan
          /\ tlog[1].ev = "expired"

\* ------------------------------------------------------------ claims on the tick's order
\* The events the step adds to the tick's log.
NewEvents ==
    IF sched.pc = "sleep"
    THEN { tlog'[k] : k \in 1..Len(tlog') }
    ELSE { tlog'[k] : k \in (Len(tlog) + 1)..Len(tlog') }

\* C16: a session a tick found expired is never treated as active again.
\* No step of the task starts a fetch or an embed edit for a message whose
\* 'ended' notice was started, in this tick or an earlier one; within a
\* tick no entry has both an 'expired' and a 'fetch' event; and a fetch is
\* started only for an entry whose end date is not before the tick's time,
\* that is after its expiry check.
C16_EndedNeverActiveAgain ==
    [][TickStep
       => /\ \A e \in NewEvents :
                e.ev \in {"fetch", "fetch_done", "edit", "edit_done", "embed_error"}
                => /\ e.msg \notin ended
                   /\ TickTime <= TickSnapshot[e.i].session.end_date.wall
          /\ \A i \in 1..Len(TickSnapshot) :
                Events(tlog', "expired", i) = {} \/ Events(tlog', "fetch", i) = {}
          /\ \A m \in ended :
                \A c \in Keys(active_leaderboards') :
                   (Lookup(active_leaderboards', c).message = m)
                   => sched'.pc # "sleep"]_vars

\* C16's case: a session was found expired by an earlier tick, and a later
\* tick is fetching for another session.
C16_Witness ==
    /\ sched.pc = "fetch"
    /\ ended # {}
    /\ \A k \in 1..Len(tlog) : tlog[k].msg \notin ended
    /\ \A k \in 1..Len(sched.snapshot) : sched.snapshot[k].session.message \notin ended

\* C17: a tick works on the items the store had when it began.  The
\* snapshot is the store at the tick's first step and does not change while
\* the tick runs, whatever commands insert or clear meanwhile; every event
\* of the tick is about an entry of that snapshot, with its channel and
\* message; the entries are taken in order, none twice; and when the tick
\* ends every entry of the snapshot has been handled.
C17_TickWorksOnSnapshot ==
    [][/\ (sched.pc # "sleep" /\ sched'.pc # "sleep")
          => /\ sched'.snapshot = sched.snapshot
             /\ sched'.current_time = sched.current_time
       /\ TickStep
          => /\ sched.pc = "sleep" /\ sched'.pc # "sleep"
                => sched'.snapshot = active_leaderboards
             /\ \A k \in 1..Len(tlog') :
                   /\ tlog'[k].i \in 1..Len(TickSnapshot)
                   /\ tlog'[k].chan = TickSnapshot[tlog'[k].i].channel_id
                   /\ tlog'[k].msg = TickSnapshot[tlog'[k].i].session.message
             /\ \A a, b \in 1..Len(tlog') : a < b => tlog'[a].i <= tlog'[b].i
             /\ TickFinish
                => \A i \in 1..Len(TickSnapshot) :
                      \E k \in 1..Len(tlog') : tlog'[k].i = i]_vars

\* C17's case: a tick over two sessions has just finished; the first was
\* cleared by /clearleaderboard while the tick was waiting, and the second
\* got its fetch all the same.
C17_Witness ==
    /\ sched.pc = "sleep"
    /\ \E k \in 1..Len(tlog) : tlog[k].i = 2 /\ tlog[k].ev = "fetch_done"
    /\ tlog[1].ev = "fetch"
    /\ \E i \in Interactions :
          /\ cmd[i].pc = "reply"
          /\ cmd[i].reply = "cleared"
          /\ cmd[i].channel_id = tlog[1].chan

\* C18: the removal at the end of a tick deletes only sessions the tick
\* marked: a session it takes out of the store has the message of an entry
\* the tick found expired or without channel.
C18_RemovesOnlyMarkedSessions ==
    [][TickFinish
       => \A c \in Keys(active_leaderboards) \ Keys(active_leaderboards') :
             Lookup(active_leaderboards, c).message \in Marked(tlog')]_vars

\* The awaits the task may be suspended in.
InFlight == {"end_edit", "fetch", "edit"}

\* C19: single flight.  The task is asleep or suspended in one await for
\* one entry of its snapshot; the snapshot has each channel once; a tick
\* starts only from the sleeping task; while it runs it moves forward only,
\* from an entry's fetch to that entry's edit or to a later entry; and no
\* entry gets the same event twice in a tick.
C19_SingleFlight ==
    [][/\ sched.pc \in InFlight \cup {"sleep"}
       /\ sched.pc \in InFlight => sched.idx \in 1..Len(sched.snapshot)
       /\ \A a, b \in 1..Len(sched.snapshot) :
             a # b => sched.snapshot[a].channel_id # sched.snapshot[b].channel_id
       /\ (sched.pc \in InFlight /\ sched'.pc \in InFlight /\ sched' # sched)
          => /\ sched'.snapshot = sched.snapshot
             /\ \/ sched'.idx > sched.idx
                \/ /\ sched'.idx = sched.idx
                   /\ sched.pc = "fetch"
                   /\ sched'.pc = "edit"
       /\ \A k, j \in 1..Len(tlog') :
             (k # j /\ tlog'[k].i = tlog'[j].i) => tlog'[k].ev # tlog'[j].ev]_vars

\* C19's case: a tick over two sessions is waiting for the edit of the
\* second, the first being done with.
C19_Witness ==
    /\ sched.pc = "edit"
    /\ sched.idx = 2
    /\ \E k \in 1..Len(tlog) : tlog[k].i = 1 /\ tlog[k].ev \in {"edit_done", "end_edit_done"}

\* C20: a session keeps its kind.  Whenever the task is about to edit a
\* session's message, the embed is of the board the session was created
\* as: /tickets sessions (their end date carries tzinfo, bot.py:373) get
\* the tickets board, /leaderboard sessions (naive end date, bot.py:333)
\* the deposits board.
C20_SessionKeepsKind ==
    sched.pc = "edit"
    => LET session == sched.snapshot[sched.idx].session
           embed == tlog[Len(tlog)].embed
       IN /\ tlog[Len(tlog)].ev = "edit"
          /\ embed.title = (IF session.end_date.aware THEN "tickets" ELSE "leaderboard")

====
